---- MODULE Spec2Model ----
(***************************************************************************)
(* Model of the LiveCrimeReport composer (components/LiveCrimeReport):     *)
(* location acquisition, audio recording, evidence attachment and the      *)
(* two-phase submission (evidence upload, then ticket creation).           *)
(* Every asynchronous handler is split at its await points; the pieces     *)
(* between two awaits are atomic, as on the single-threaded event loop.    *)
(***************************************************************************)
EXTENDS Integers, Sequences, FiniteSets, TLC

\* ---------------------------------------------------------------- bounds
\* operations one session performs: getCurrentLocation calls, startRecording
\* calls, submissions, evidence items added and removeFile calls together
MaxOps == 5
\* files in one selection
MaxSelect == 2

\* ------------------------------------------------------- program constants
MinDescription == 20

CrimeTypes == {"ROBBERY", "FRAUD", "CYBERCRIME", "SCAM", "IMPERSONATION", "OTHER"}

\* ------------------------------------------------------------ input domains
NULL == [null |-> TRUE]

Positions == {[latitude |-> 6, longitude |-> 3]}
Addresses == {"Lagos, Nigeria"}
FileNames == {"receipt.jpg"}
\* answers of the upload endpoint (response.data.urls)
UploadResponses == {<<"u1">>, <<"u1", "u2">>, <<"u2", "u1">>}

DefaultForm == [crimeType |-> "", description |-> "", inProgress |-> FALSE]

FormInputs ==
  { DefaultForm,
    [crimeType |-> "FRAUD", description |-> "Cloned card used at an ATM", inProgress |-> TRUE],
    [crimeType |-> "FRAUD", description |-> "Too short", inProgress |-> TRUE],
    [crimeType |-> "", description |-> "Cloned card used at an ATM", inProgress |-> FALSE] }

SeqsUpTo(S, n) == UNION { [1..k -> S] : k \in 0..n }

VARIABLES
  mounted,            \* the mount effect has run
  unmounted,          \* the parent has taken the component out of the tree
  location,           \* useState<Location | null>
  isLoadingLocation,  \* useState(false)
  locCalls,           \* invocations of getCurrentLocation, in call order
  evidenceFiles,      \* useState<File[]>
  isRecording,        \* useState(false)
  mediaRecorder,      \* useState<MediaRecorder | null>: 0 or an index of recorders
  audioChunks,        \* useState<Blob[]>
  recorders,          \* the MediaRecorder objects startRecording created
  form,               \* the registered form fields
  isSubmitted,        \* formState.isSubmitted: handleSubmit has run
  runs,               \* executions of the submitCrimeReport mutation
  nAdded,             \* history: items ever appended to evidenceFiles
  removed,            \* history: ids of the items removeFile took out
  nRemoveCalls        \* history: calls of removeFile

\* BulkSMS.tsx
VARIABLES
  recipientFile,      \* useState<File | null>: 0 or the id of a file
  previewRecipients,  \* useState<string[]>
  recipients,         \* the form value 'recipients'
  message,            \* the form value 'message'
  parses,             \* Papa.parse jobs, in call order
  sends               \* executions of sendSMSMutation

\* part_002: Flights
VARIABLES
  searchForm,         \* the values of the search form
  searches,           \* executions of searchFlightsMutation
  searchData,         \* searchFlightsMutation.data
  selectedFlight,     \* useState<Flight | null>
  showPassengerForm,  \* useState(false)
  passengers,         \* useState<PassengerFormData[]>
  bookings            \* executions of bookFlightMutation

crimeVars == <<mounted, unmounted, location, isLoadingLocation, locCalls, evidenceFiles,
               isRecording, mediaRecorder, audioChunks, recorders, form,
               isSubmitted, runs, nAdded, removed, nRemoveCalls>>
smsVars == <<recipientFile, previewRecipients, recipients, message, parses, sends>>
flightVars == <<searchForm, searches, searchData, selectedFlight, showPassengerForm,
                passengers, bookings>>
otherPages == <<smsVars, flightVars>>

vars == <<crimeVars, smsVars, flightVars>>

\* operations performed so far
nOps == Len(locCalls) + Len(recorders) + Len(runs) + nAdded + nRemoveCalls
          + (IF unmounted THEN 1 ELSE 0)

locVars == <<location, isLoadingLocation, locCalls>>
recVars == <<isRecording, mediaRecorder, audioChunks, recorders>>
evVars == <<evidenceFiles, nAdded, removed, nRemoveCalls>>
formVars == <<form, isSubmitted>>

\* the search form before the user touches it (part_002 lines 45-48): the
\* passengers value is the number 1; a value typed into the input is a string
DefaultSearchForm ==
  [from |-> "", to |-> "", passengers |-> [isNumber |-> TRUE, value |-> 1]]

\* searchFlightsMutation.data before a search has answered
NoData == [loaded |-> FALSE, flights |-> {}]

\* BulkSMS.tsx lines 41-58
InitBulkSMS ==
  /\ recipientFile = 0
  /\ previewRecipients = <<>>
  /\ recipients = <<>>
  /\ message = ""
  /\ parses = <<>>
  /\ sends = <<>>

\* part_002 lines 34-49
InitFlights ==
  /\ searchForm = DefaultSearchForm
  /\ searches = <<>>
  /\ searchData = NoData
  /\ selectedFlight = NULL
  /\ showPassengerForm = FALSE
  /\ passengers = <<>>
  /\ bookings = <<>>

\* ------------------------------------------------------------------- Init
Init ==
  /\ InitBulkSMS
  /\ InitFlights
  /\ mounted = FALSE
  /\ unmounted = FALSE
  /\ location = NULL
  /\ isLoadingLocation = FALSE
  /\ locCalls = <<>>
  /\ evidenceFiles = <<>>
  /\ isRecording = FALSE
  /\ mediaRecorder = 0
  /\ audioChunks = <<>>
  /\ recorders = <<>>
  /\ form = DefaultForm
  /\ isSubmitted = FALSE
  /\ runs = <<>>
  /\ nAdded = 0
  /\ removed = {}
  /\ nRemoveCalls = 0

\* lines 25-30: a state setter called after the component was unmounted
\* changes nothing
SetState(cur, new) == IF mounted THEN new ELSE cur

\* ------------------------------------------------------ getCurrentLocation
\* no reverse-geocode request sent yet
NoQuery == [lat |-> 0, lon |-> 0]

\* line 58: the query string of the reverse-geocode request
GeocodeQuery(latitude, longitude) == [lat |-> latitude, lon |-> longitude]

\* a slip of lines 61-65: the coordinates stored in each other's place
LocationOfSwapped(latitude, longitude, addr) ==
  [latitude |-> longitude, longitude |-> latitude, address |-> addr]

\* lines 61-65: the object given to setLocation
LocationOf(latitude, longitude, addr) ==
  [latitude |-> latitude, longitude |-> longitude, address |-> addr]

\* lines 47-52: set the loading flag and ask the device for a position
StartLocationCall(trigger) ==
  /\ locCalls' = Append(locCalls, [trigger |-> trigger,
                                   stage |-> "position", latitude |-> 0,
                                   longitude |-> 0, query |-> NoQuery,
                                   address |-> "", positionQueries |-> 1,
                                   geocodeCalls |-> 0, errorToasts |-> 0])
  /\ isLoadingLocation' = TRUE
  /\ UNCHANGED location

\* a slip of lines 43-45: the effect does not ask for the location
MountWithoutLocation ==
  /\ ~mounted
  /\ ~unmounted
  /\ mounted' = TRUE
  /\ UNCHANGED <<otherPages, unmounted, locVars, recVars, evVars, formVars, runs>>

\* lines 43-45: the mount effect
Mount ==
  /\ ~mounted
  /\ ~unmounted
  /\ mounted' = TRUE
  /\ StartLocationCall("mount")
  /\ UNCHANGED <<otherPages, unmounted, recVars, evVars, formVars, runs>>

\* part_003 lines 43-47: the parent stops rendering the component (the ticket
\* type changes); the effect of lines 43-45 returns no cleanup, so pending
\* requests and recorders go on
Unmount ==
  /\ mounted
  /\ nOps < MaxOps
  /\ mounted' = FALSE
  /\ unmounted' = TRUE
  /\ UNCHANGED <<otherPages, locVars, recVars, evVars, formVars, runs>>

\* a slip of line 244: the button stays rendered while a call is loading
GetLocationClickWhileLoading ==
  /\ mounted
  /\ location = NULL
  /\ nOps < MaxOps
  /\ StartLocationCall("click")
  /\ UNCHANGED <<otherPages, mounted, unmounted, recVars, evVars, formVars, runs>>

\* lines 244-261: the "Get my location" button is rendered only when the
\* location is neither loading nor set
GetLocationClick ==
  /\ mounted
  /\ ~isLoadingLocation
  /\ location = NULL
  /\ nOps < MaxOps
  /\ StartLocationCall("click")
  /\ UNCHANGED <<otherPages, mounted, unmounted, recVars, evVars, formVars, runs>>

\* lines 54-59: the position arrived, the reverse-geocode request goes out
PositionResolve(i, pos) ==
  /\ locCalls[i].stage = "position"
  /\ locCalls' = [locCalls EXCEPT ![i].stage = "geocode",
                                  ![i].latitude = pos.latitude,
                                  ![i].longitude = pos.longitude,
                                  ![i].query = GeocodeQuery(pos.latitude, pos.longitude),
                                  ![i].geocodeCalls = @ + 1]
  /\ UNCHANGED <<otherPages, mounted, unmounted, location, isLoadingLocation, recVars, evVars, formVars, runs>>

\* a slip of lines 66-70: the coordinates obtained so far are stored on failure
LocationFailedStoresCoordinates(i) ==
  /\ locCalls' = [locCalls EXCEPT ![i].stage = "failed", ![i].errorToasts = @ + 1]
  /\ isLoadingLocation' = SetState(isLoadingLocation, FALSE)
  /\ location' = SetState(location,
                    LocationOf(locCalls[i].latitude, locCalls[i].longitude, ""))

\* a slip of lines 68-70: the loading flag is not reset on failure
LocationFailedKeepsLoading(i) ==
  /\ locCalls' = [locCalls EXCEPT ![i].stage = "failed", ![i].errorToasts = @ + 1]
  /\ UNCHANGED <<location, isLoadingLocation>>

\* lines 66-70: catch and finally
LocationFailed(i) ==
  /\ locCalls' = [locCalls EXCEPT ![i].stage = "failed", ![i].errorToasts = @ + 1]
  /\ isLoadingLocation' = SetState(isLoadingLocation, FALSE)
  /\ UNCHANGED location

PositionReject(i) ==
  /\ locCalls[i].stage = "position"
  /\ LocationFailed(i)
  /\ UNCHANGED <<otherPages, mounted, unmounted, recVars, evVars, formVars, runs>>

\* lines 61-65, 68-70
GeocodeResolve(i, addr) ==
  /\ locCalls[i].stage = "geocode"
  /\ location' = SetState(location,
                    LocationOf(locCalls[i].latitude, locCalls[i].longitude, addr))
  /\ locCalls' = [locCalls EXCEPT ![i].stage = "done", ![i].address = addr]
  /\ isLoadingLocation' = SetState(isLoadingLocation, FALSE)
  /\ UNCHANGED <<otherPages, mounted, unmounted, recVars, evVars, formVars, runs>>

GeocodeReject(i) ==
  /\ locCalls[i].stage = "geocode"
  /\ LocationFailed(i)
  /\ UNCHANGED <<otherPages, mounted, unmounted, recVars, evVars, formVars, runs>>

\* ------------------------------------------------- evidence collection
FileItem(id, name) == [id |-> id, name |-> name, payload |-> <<>>, session |-> 0]

AudioItem(id, chunks, session) ==
  [id |-> id, name |-> "audio-evidence.webm", payload |-> chunks, session |-> session]

\* Array.from(e.target.files): one File object per selected name
NewFiles(names, base) == [k \in 1..Len(names) |-> FileItem(base + k, names[k])]

\* a slip of line 107: the new files in front of the old ones
AppendFilesInFront(prev, files) == files \o prev

\* line 107: [...prev, ...files]
AppendFiles(prev, files) == prev \o files

\* a slip of line 112: the item after the requested one is dropped
RemoveAtNext(prev, index) ==
  [k \in 1..(Len(prev) - (IF index + 2 \in DOMAIN prev THEN 1 ELSE 0)) |->
     IF k < index + 2 THEN prev[k] ELSE prev[k + 1]]

\* line 112: prev.filter((_, i) => i !== index), index counted from 0
RECURSIVE FilterOut(_, _, _)
FilterOut(prev, index, i) ==
  IF i > Len(prev) THEN <<>>
  ELSE (IF i - 1 # index THEN <<prev[i]>> ELSE <<>>) \o FilterOut(prev, index, i + 1)

RemoveAt(prev, index) == FilterOut(prev, index, 1)

\* lines 104-109
handleFileChange(names) ==
  /\ mounted
  /\ nOps + Len(names) <= MaxOps
  /\ evidenceFiles' = AppendFiles(evidenceFiles, NewFiles(names, nAdded))
  /\ nAdded' = nAdded + Len(names)
  /\ UNCHANGED <<otherPages, mounted, unmounted, locVars, recVars, formVars, runs, removed, nRemoveCalls>>

\* lines 111-113
removeFile(index) ==
  /\ mounted
  /\ nOps < MaxOps
  /\ evidenceFiles' = RemoveAt(evidenceFiles, index)
  /\ nRemoveCalls' = nRemoveCalls + 1
  /\ removed' = IF index + 1 \in DOMAIN evidenceFiles
                  THEN removed \cup {evidenceFiles[index + 1].id}
                  ELSE removed
  /\ UNCHANGED <<otherPages, mounted, unmounted, locVars, recVars, formVars, runs, nAdded>>

\* ------------------------------------------------------------------- form
\* the user edits the registered fields
SetForm(f) ==
  /\ mounted
  /\ f # form
  /\ form' = f
  /\ UNCHANGED <<otherPages, mounted, unmounted, locVars, recVars, evVars, isSubmitted, runs>>

\* a slip of line 10: the category is not checked against the enum
ValidateDescriptionOnly(f) ==
  IF Len(f.description) >= MinDescription THEN {} ELSE {"description"}

\* lines 9-14: crimeReportSchema
Validate(f) ==
  (IF f.crimeType \in CrimeTypes THEN {} ELSE {"crimeType"})
    \cup (IF Len(f.description) >= MinDescription THEN {} ELSE {"description"})

\* line 35: formState.errors; the fields are validated by handleSubmit and,
\* once the form was submitted, again on every change
errors == IF isSubmitted THEN Validate(form) ELSE {}

\* -------------------------------------------------------------- recording
\* lines 73-75: the record button shows "Record Audio" while isRecording is
\* false (line 288); the handler awaits getUserMedia
StartRecordingClick ==
  /\ mounted
  /\ ~isRecording
  /\ nOps < MaxOps
  /\ recorders' = Append(recorders, [state |-> "pending", streamOpen |-> FALSE,
                                     emitted |-> <<>>, errorToasts |-> 0])
  /\ UNCHANGED <<otherPages, mounted, unmounted, locVars, evVars, formVars, runs,
                 isRecording, mediaRecorder, audioChunks>>

\* lines 76-86: the stream arrived; the recorder is created and started
GetUserMediaResolve(i) ==
  /\ recorders[i].state = "pending"
  /\ recorders' = [recorders EXCEPT ![i].state = "recording",
                                   ![i].streamOpen = TRUE]
  /\ mediaRecorder' = SetState(mediaRecorder, i)
  /\ isRecording' = SetState(isRecording, TRUE)
  /\ UNCHANGED <<otherPages, mounted, unmounted, locVars, evVars, formVars, runs, audioChunks>>

\* a slip of lines 85-89: the recording flag is set on the failure path
GetUserMediaRejectSetsRecording(i) ==
  /\ recorders[i].state = "pending"
  /\ recorders' = [recorders EXCEPT ![i].state = "failed", ![i].errorToasts = @ + 1]
  /\ isRecording' = SetState(isRecording, TRUE)
  /\ UNCHANGED <<otherPages, mounted, unmounted, locVars, evVars, formVars, runs,
                 mediaRecorder, audioChunks>>

\* lines 87-89
GetUserMediaReject(i) ==
  /\ recorders[i].state = "pending"
  /\ recorders' = [recorders EXCEPT ![i].state = "failed", ![i].errorToasts = @ + 1]
  /\ UNCHANGED <<otherPages, mounted, unmounted, locVars, evVars, formVars, runs,
                 isRecording, mediaRecorder, audioChunks>>

\* the k-th chunk recorder i emits
Chunk(i) == <<i, Len(recorders[i].emitted) + 1>>

\* line 80: (chunks) => [...chunks, e.data]
AppendChunk(chunks, data) == Append(chunks, data)

\* line 97: new Blob(audioChunks): the parts in array order
BlobOf(chunks) == chunks

\* lines 92-102: the button shows "Stop Recording" while isRecording
\* (line 288). MediaRecorder.stop() returns at once; the recorder delivers
\* the data it still holds in a dataavailable event queued behind it.
\* stop() ends the recorder, not the tracks of the stream it was given, and
\* nothing in lines 92-102 stops them: streamOpen stays as it is.
StopRecordingClick ==
  /\ mounted
  /\ isRecording
  /\ mediaRecorder # 0
  /\ nOps < MaxOps
  /\ recorders' = [recorders EXCEPT ![mediaRecorder].state = "stopping"]
  /\ isRecording' = FALSE
  /\ evidenceFiles' = AppendFiles(evidenceFiles,
                         <<AudioItem(nAdded + 1, BlobOf(audioChunks), mediaRecorder)>>)
  /\ nAdded' = nAdded + 1
  /\ audioChunks' = <<>>
  /\ UNCHANGED <<otherPages, mounted, unmounted, locVars, formVars, runs, mediaRecorder, removed, nRemoveCalls>>

\* lines 78-82: the dataavailable event that follows stop(); hasData is
\* e.data.size > 0
FinalDataAvailable(i, hasData) ==
  /\ recorders[i].state = "stopping"
  /\ IF hasData
       THEN /\ audioChunks' = SetState(audioChunks, AppendChunk(audioChunks, Chunk(i)))
            /\ recorders' = [recorders EXCEPT ![i].state = "inactive",
                                             ![i].emitted = Append(@, Chunk(i))]
       ELSE /\ audioChunks' = audioChunks
            /\ recorders' = [recorders EXCEPT ![i].state = "inactive"]
  /\ UNCHANGED <<otherPages, mounted, unmounted, locVars, evVars, formVars, runs, isRecording, mediaRecorder>>

\* ------------------------------------------------------------- submission
InFlight(r) == r.stage \in {"uploading", "creating"}

\* submitCrimeReport.isLoading: the state of the observer's latest mutation
isLoading == runs # <<>> /\ InFlight(runs[Len(runs)])

\* a slip of line 350: the button stays enabled while a submission is pending
SubmitDisabledIgnoresLoading == location = NULL

\* line 350
SubmitDisabled == isLoading \/ location = NULL

RECURSIVE Reverse(_)
Reverse(q) == IF q = <<>> THEN <<>> ELSE Append(Reverse(Tail(q)), Head(q))

\* a slip of line 139: the priority follows the selected category
ReportDataPriorityByCategory(data, loc, evidenceUrls) ==
  [type |-> "LIVE_CRIME",
   subject |-> "Live Crime Report: " \o data.crimeType,
   description |-> data.description,
   priority |-> IF data.crimeType = "ROBBERY" THEN "HIGH" ELSE "MEDIUM",
   crimeDetails |-> [crimeType |-> data.crimeType,
                     description |-> data.description,
                     inProgress |-> data.inProgress,
                     location |-> loc,
                     evidenceUrls |-> evidenceUrls]]

\* lines 135-145
ReportData(data, loc, evidenceUrls) ==
  [type |-> "LIVE_CRIME",
   subject |-> "Live Crime Report: " \o data.crimeType,
   description |-> data.description,
   priority |-> "HIGH",
   crimeDetails |-> [crimeType |-> data.crimeType,
                     description |-> data.description,
                     inProgress |-> data.inProgress,
                     location |-> loc,
                     evidenceUrls |-> evidenceUrls]]

NewRun(data, viaButton) ==
  [data |-> data, location |-> location, files |-> evidenceFiles,
   viaButton |-> viaButton,
   stage |-> "new", failedAt |-> "", uploadCalls |-> 0, uploadResult |-> "none",
   uploadUrls |-> <<>>, payload |-> NULL, createCalls |-> 0,
   onSubmitCalls |-> 0, errorToasts |-> 0, successToasts |-> 0]

\* a slip of lines 155-157: the failure path signals the caller too
OnErrorSignalsCaller(r, at) ==
  [r EXCEPT !.stage = "failed", !.failedAt = at, !.errorToasts = @ + 1,
            !.onSubmitCalls = @ + 1]

\* lines 155-157
OnError(r, at) ==
  [r EXCEPT !.stage = "failed", !.failedAt = at, !.errorToasts = @ + 1]

\* lines 151-154
OnSuccess(r) ==
  [r EXCEPT !.stage = "succeeded", !.successToasts = @ + 1, !.onSubmitCalls = @ + 1]

\* a slip of line 143: the references in another order than the upload's
PostTicketReordered(r, evidenceUrls) ==
  [r EXCEPT !.stage = "creating",
            !.payload = ReportData(r.data, r.location, Reverse(evidenceUrls)),
            !.createCalls = @ + 1]

\* lines 135-147: build the payload and post it to /api/support/tickets
PostTicket(r, evidenceUrls) ==
  [r EXCEPT !.stage = "creating",
            !.payload = ReportData(r.data, r.location, evidenceUrls),
            !.createCalls = @ + 1]

\* a slip of lines 130-133: the ticket is posted without awaiting the upload
MutationStartNoAwait(r) ==
  IF r.location = NULL
    THEN OnError(r, "location")
    ELSE PostTicket([r EXCEPT !.uploadCalls = IF Len(r.files) > 0 THEN 1 ELSE 0], <<>>)

\* a slip of lines 126-128: the location check is missing
MutationStartNoLocationCheck(r) ==
  IF Len(r.files) > 0
    THEN [r EXCEPT !.stage = "uploading", !.uploadCalls = @ + 1]
    ELSE PostTicket(r, <<>>)

\* a slip of lines 130-133: the references of an earlier successful upload
\* are used again instead of uploading
MutationStartReusesUpload(r) ==
  IF r.location = NULL
    THEN OnError(r, "location")
    ELSE IF Len(r.files) > 0
      THEN IF \E k \in 1..Len(runs) : runs[k].uploadResult = "ok"
             THEN PostTicket(r, runs[CHOOSE k \in 1..Len(runs) :
                                       runs[k].uploadResult = "ok"].uploadUrls)
             ELSE [r EXCEPT !.stage = "uploading", !.uploadCalls = @ + 1]
      ELSE PostTicket(r, <<>>)

\* a slip of line 131: the upload is called for an empty collection too
MutationStartAlwaysUploads(r) ==
  IF r.location = NULL
    THEN OnError(r, "location")
    ELSE [r EXCEPT !.stage = "uploading", !.uploadCalls = @ + 1]

\* lines 125-133: the mutation function up to its first await
MutationStart(r) ==
  IF r.location = NULL
    THEN OnError(r, "location")
    ELSE IF Len(r.files) > 0
      THEN [r EXCEPT !.stage = "uploading", !.uploadCalls = @ + 1]
      ELSE PostTicket(r, <<>>)

\* line 186: handleSubmit validates the fields and, when they are valid,
\* calls submitCrimeReport.mutate(data)
HandleSubmit(viaButton) ==
  /\ nOps < MaxOps
  /\ runs' = IF Validate(form) = {}
               THEN Append(runs, MutationStart(NewRun(form, viaButton)))
               ELSE runs
  /\ isSubmitted' = TRUE
  /\ UNCHANGED <<otherPages, mounted, unmounted, locVars, recVars, evVars, form>>

\* lines 348-354: a click on the submit button
SubmitButtonClick ==
  /\ mounted
  /\ ~SubmitDisabled
  /\ HandleSubmit(TRUE)

\* line 186: a submit event of the form that does not come from the button
\* (form.requestSubmit(), a dispatched event). While the button is enabled
\* such an event does what a click does, which SubmitButtonClick covers.
RequestSubmit ==
  /\ mounted
  /\ SubmitDisabled
  /\ HandleSubmit(FALSE)

\* lines 119-120, 132: the upload answered with response.data.urls
UploadResolve(i, urls) ==
  /\ runs[i].stage = "uploading"
  /\ runs' = [runs EXCEPT ![i] =
         PostTicket([@ EXCEPT !.uploadResult = "ok", !.uploadUrls = urls], urls)]
  /\ UNCHANGED <<otherPages, mounted, unmounted, locVars, recVars, evVars, formVars>>

\* a slip of line 132: the rejected upload is swallowed and the ticket posted
UploadRejectSwallowed(i) ==
  /\ runs[i].stage = "uploading"
  /\ runs' = [runs EXCEPT ![i] = PostTicket([@ EXCEPT !.uploadResult = "failed"], <<>>)]
  /\ UNCHANGED <<otherPages, mounted, unmounted, locVars, recVars, evVars, formVars>>

\* a slip of lines 115-122: a rejected upload is sent once more
UploadRejectRetries(i) ==
  /\ runs[i].stage = "uploading"
  /\ runs' = [runs EXCEPT ![i] =
       IF @.uploadCalls < 2
         THEN [@ EXCEPT !.uploadCalls = @ + 1]
         ELSE OnError([@ EXCEPT !.uploadResult = "failed"], "upload")]
  /\ UNCHANGED <<otherPages, mounted, unmounted, locVars, recVars, evVars, formVars>>

\* line 132 throws, lines 155-157
UploadReject(i) ==
  /\ runs[i].stage = "uploading"
  /\ runs' = [runs EXCEPT ![i] = OnError([@ EXCEPT !.uploadResult = "failed"], "upload")]
  /\ UNCHANGED <<otherPages, mounted, unmounted, locVars, recVars, evVars, formVars>>

\* a slip of lines 151-154: the success path resets the location
CreateResolveResetsLocation(i) ==
  /\ runs[i].stage = "creating"
  /\ runs' = [runs EXCEPT ![i] = OnSuccess(@)]
  /\ location' = SetState(location, NULL)
  /\ UNCHANGED <<otherPages, mounted, unmounted, isLoadingLocation, locCalls, recVars,
                 evVars, formVars>>

\* lines 147-154
CreateResolve(i) ==
  /\ runs[i].stage = "creating"
  /\ runs' = [runs EXCEPT ![i] = OnSuccess(@)]
  /\ UNCHANGED <<otherPages, mounted, unmounted, locVars, recVars, evVars, formVars>>

\* line 147 throws, lines 155-157
CreateReject(i) ==
  /\ runs[i].stage = "creating"
  /\ runs' = [runs EXCEPT ![i] = OnError(@, "create")]
  /\ UNCHANGED <<otherPages, mounted, unmounted, locVars, recVars, evVars, formVars>>

\* ------------------------------------------------------------------- Next
Next ==
  \/ Mount
  \/ Unmount
  \/ GetLocationClick
  \/ \E i \in DOMAIN locCalls, pos \in Positions : PositionResolve(i, pos)
  \/ \E i \in DOMAIN locCalls : PositionReject(i)
  \/ \E i \in DOMAIN locCalls, addr \in Addresses : GeocodeResolve(i, addr)
  \/ \E i \in DOMAIN locCalls : GeocodeReject(i)
  \/ \E names \in SeqsUpTo(FileNames, MaxSelect) : handleFileChange(names)
  \/ \E index \in 0..MaxOps : removeFile(index)
  \/ \E f \in FormInputs : SetForm(f)
  \/ StartRecordingClick
  \/ \E i \in DOMAIN recorders : GetUserMediaResolve(i)
  \/ \E i \in DOMAIN recorders : GetUserMediaReject(i)
  \/ StopRecordingClick
  \/ \E i \in DOMAIN recorders, hasData \in BOOLEAN : FinalDataAvailable(i, hasData)
  \/ SubmitButtonClick
  \/ RequestSubmit
  \/ \E i \in DOMAIN runs, urls \in UploadResponses : UploadResolve(i, urls)
  \/ \E i \in DOMAIN runs : UploadReject(i)
  \/ \E i \in DOMAIN runs : CreateResolve(i)
  \/ \E i \in DOMAIN runs : CreateReject(i)

Spec == Init /\ [][Next]_vars

\* ================================================================= BulkSMS
\* BulkSMS.tsx line 111: the preview shows the first five numbers
PreviewLimit == 5

\* BulkSMS.tsx line 18
MaxMessage == 160

\* results.data of Papa.parse for the files the user can choose: rows of cells
CsvData ==
  << << <<"n1">>, <<"">>, <<"n2", "n3">> >>,
     << <<"p1", "p2">>, <<"p3", "">>, <<"p4">>, <<"p5", "p6", "p7">> >>,
     << <<"">> >> >>

Messages == {"", "Sale today"}

smsOps == Len(parses) + Len(sends)

\* line 109: results.data.flat()
RECURSIVE Flat(_)
Flat(rows) == IF rows = <<>> THEN <<>> ELSE Head(rows) \o Flat(Tail(rows))

\* line 110: the cells that are non-empty strings
RECURSIVE NonEmpty(_)
NonEmpty(cells) ==
  IF cells = <<>> THEN <<>>
  ELSE IF Len(Head(cells)) > 0
    THEN <<Head(cells)>> \o NonEmpty(Tail(cells))
    ELSE NonEmpty(Tail(cells))

\* lines 108-110
PhoneNumbers(rows) == NonEmpty(Flat(rows))

\* line 111: phoneNumbers.slice(0, 5)
Slice(numbers) ==
  SubSeq(numbers, 1, IF Len(numbers) < PreviewLimit THEN Len(numbers) ELSE PreviewLimit)

\* lines 102-106: a file was chosen; Papa.parse reads it asynchronously
handleFileUpload(file) ==
  /\ smsOps < MaxOps
  /\ recipientFile' = file
  /\ parses' = Append(parses, [file |-> file, stage |-> "parsing"])
  /\ UNCHANGED <<crimeVars, flightVars, previewRecipients, recipients, message, sends>>

\* lines 107-113: the complete callback of a parse
ParseComplete(i) ==
  /\ parses[i].stage = "parsing"
  /\ parses' = [parses EXCEPT ![i].stage = "complete"]
  /\ previewRecipients' = Slice(PhoneNumbers(CsvData[parses[i].file]))
  /\ recipients' = PhoneNumbers(CsvData[parses[i].file])
  /\ UNCHANGED <<crimeVars, flightVars, recipientFile, message, sends>>

\* lines 231-236: the user edits the message
SetMessage(m) ==
  /\ m # message
  /\ message' = m
  /\ UNCHANGED <<crimeVars, flightVars, recipientFile, previewRecipients, recipients,
                 parses, sends>>

\* lines 16-21: smsSchema
ValidateSMS(data) ==
  /\ Len(data.recipients) >= 1
  /\ Len(data.message) >= 1
  /\ Len(data.message) <= MaxMessage

\* line 256: sendSMSMutation.isLoading
smsIsLoading == sends # <<>> /\ sends[Len(sends)].stage = "sending"

\* line 157 and lines 70-74: a click on "Send SMS"; handleSubmit validates
\* and posts the form values
SendClick ==
  /\ ~smsIsLoading
  /\ smsOps < MaxOps
  /\ sends' = IF ValidateSMS([recipients |-> recipients, message |-> message])
                THEN Append(sends, [data |-> [recipients |-> recipients,
                                              message |-> message],
                                    stage |-> "sending"])
                ELSE sends
  /\ UNCHANGED <<crimeVars, flightVars, recipientFile, previewRecipients, recipients,
                 message, parses>>

\* a slip of lines 76-81: the preview is not cleared on success
SendResolveKeepsPreview(i) ==
  /\ sends[i].stage = "sending"
  /\ sends' = [sends EXCEPT ![i].stage = "succeeded"]
  /\ recipients' = <<>>
  /\ message' = ""
  /\ recipientFile' = 0
  /\ UNCHANGED <<crimeVars, flightVars, previewRecipients, parses>>

\* lines 76-81: onSuccess; reset() puts the form back to its default values
SendResolve(i) ==
  /\ sends[i].stage = "sending"
  /\ sends' = [sends EXCEPT ![i].stage = "succeeded"]
  /\ recipients' = <<>>
  /\ message' = ""
  /\ recipientFile' = 0
  /\ previewRecipients' = <<>>
  /\ UNCHANGED <<crimeVars, flightVars, parses>>

\* lines 82-84: onError
SendReject(i) ==
  /\ sends[i].stage = "sending"
  /\ sends' = [sends EXCEPT ![i].stage = "failed"]
  /\ UNCHANGED <<crimeVars, flightVars, recipientFile, previewRecipients, recipients,
                 message, parses>>

NextBulkSMS ==
  \/ \E file \in 1..Len(CsvData) : handleFileUpload(file)
  \/ \E i \in 1..Len(parses) : ParseComplete(i)
  \/ \E m \in Messages : SetMessage(m)
  \/ SendClick
  \/ \E i \in 1..Len(sends) : SendResolve(i)
  \/ \E i \in 1..Len(sends) : SendReject(i)

SpecBulkSMS == Init /\ [][NextBulkSMS]_vars

\* ================================================================= Flights
\* part_002 line 16: passengers between 1 and 9
MinPassengers == 1
MaxPassengers == 9

\* part_002 lines 12-13
MinAirport == 3

\* part_002 lines 22-23
MinName == 2

\* a value the user typed into the passengers input (lines 184-190): the
\* field is registered without valueAsNumber, so the form holds a string
Typed(n) == [isNumber |-> FALSE, value |-> n]

\* what the user can make of the search form
SearchInputs ==
  { DefaultSearchForm,
    [from |-> "LOS", to |-> "ABV", passengers |-> [isNumber |-> TRUE, value |-> 1]],
    [from |-> "LOS", to |-> "ABV", passengers |-> Typed(2)] }

\* the answer of /api/flights/search
FlightResults == {[id |-> 1, price |-> 100], [id |-> 2, price |-> 250]}

\* what the passenger form can hold on submit
PassengerInputs ==
  { [firstName |-> "Ada", lastName |-> "Obi"],
    [firstName |-> "A", lastName |-> "Obi"] }

flightOps == Len(passengers) + Len(searches) + Len(bookings)

\* lines 96-100: a successful booking sends the browser to the payment page
redirected == \E i \in 1..Len(bookings) : bookings[i].stage = "succeeded"

\* the user edits the search form; once the passengers input was typed into,
\* its value stays a string
SetSearchForm(f) ==
  /\ ~redirected
  /\ f # searchForm
  /\ searchForm.passengers.isNumber \/ ~f.passengers.isNumber
  /\ searchForm' = f
  /\ UNCHANGED <<crimeVars, smsVars, searches, searchData, selectedFlight,
                 showPassengerForm, passengers, bookings>>

\* lines 11-18: searchSchema
ValidateSearch(f) ==
  /\ Len(f.from) >= MinAirport
  /\ Len(f.to) >= MinAirport
  /\ f.passengers.isNumber
  /\ f.passengers.value >= MinPassengers
  /\ f.passengers.value <= MaxPassengers

\* line 211: searchFlightsMutation.isLoading
searchIsLoading == searches # <<>> /\ searches[Len(searches)].stage = "searching"

\* line 121 and lines 70-74: a click on "Search Flights"; a new mutation
\* drops the data of the one before
SearchClick ==
  /\ ~redirected
  /\ ~searchIsLoading
  /\ flightOps < MaxOps
  /\ IF ValidateSearch(searchForm)
       THEN /\ searches' = Append(searches, [stage |-> "searching"])
            /\ searchData' = NoData
       ELSE UNCHANGED <<searches, searchData>>
  /\ UNCHANGED <<crimeVars, smsVars, searchForm, selectedFlight, showPassengerForm,
                 passengers, bookings>>

\* lines 72-73: the search answered
SearchResolve(i) ==
  /\ ~redirected
  /\ searches[i].stage = "searching"
  /\ searches' = [searches EXCEPT ![i].stage = "succeeded"]
  /\ searchData' = [loaded |-> TRUE, flights |-> FlightResults]
  /\ UNCHANGED <<crimeVars, smsVars, searchForm, selectedFlight, showPassengerForm,
                 passengers, bookings>>

\* lines 76-78: onError
SearchReject(i) ==
  /\ ~redirected
  /\ searches[i].stage = "searching"
  /\ searches' = [searches EXCEPT ![i].stage = "failed"]
  /\ UNCHANGED <<crimeVars, smsVars, searchForm, searchData, selectedFlight,
                 showPassengerForm, passengers, bookings>>

\* lines 262-270: the Select button of a listed flight
SelectFlight(flight) ==
  /\ ~redirected
  /\ searchData.loaded
  /\ flight \in searchData.flights
  /\ selectedFlight' = flight
  /\ showPassengerForm' = TRUE
  /\ UNCHANGED <<crimeVars, smsVars, searchForm, searches, searchData, passengers,
                 bookings>>

\* lines 20-27: passengerSchema
ValidatePassenger(p) ==
  /\ Len(p.firstName) >= MinName
  /\ Len(p.lastName) >= MinName

\* line 111: passengers.length + 1 === watchSearch('passengers')
StrictEquals(n, v) == v.isNumber /\ v.value = n

\* lines 107-114 behind handlePassengerSubmit (the form is rendered while
\* showPassengerForm && selectedFlight, line 280)
handleAddPassenger(data) ==
  /\ ~redirected
  /\ showPassengerForm
  /\ selectedFlight # NULL
  /\ flightOps < MaxOps
  /\ IF ValidatePassenger(data)
       THEN /\ passengers' = Append(passengers, data)
            /\ showPassengerForm' =
                 IF StrictEquals(Len(passengers) + 1, searchForm.passengers)
                   THEN FALSE ELSE showPassengerForm
       ELSE UNCHANGED <<passengers, showPassengerForm>>
  /\ UNCHANGED <<crimeVars, smsVars, searchForm, searches, searchData, selectedFlight,
                 bookings>>

\* lines 360-366: the Cancel button of the passenger form
CancelPassengerForm ==
  /\ ~redirected
  /\ showPassengerForm
  /\ selectedFlight # NULL
  /\ showPassengerForm' = FALSE
  /\ UNCHANGED <<crimeVars, smsVars, searchForm, searches, searchData, selectedFlight,
                 passengers, bookings>>

\* line 404: bookFlightMutation.isLoading
bookIsLoading == bookings # <<>> /\ bookings[Len(bookings)].stage = "booking"

\* lines 402-408 and 82-93: "Proceed to Payment", rendered while a flight is
\* selected and passengers exist (line 381)
BookClick ==
  /\ ~redirected
  /\ selectedFlight # NULL
  /\ Len(passengers) > 0
  /\ ~bookIsLoading
  /\ flightOps < MaxOps
  /\ bookings' = Append(bookings,
                    [flightId |-> selectedFlight.id,
                     passengers |-> passengers,
                     totalAmount |-> selectedFlight.price * Len(passengers),
                     requested |-> searchForm.passengers.value,
                     stage |-> "booking"])
  /\ UNCHANGED <<crimeVars, smsVars, searchForm, searches, searchData, selectedFlight,
                 showPassengerForm, passengers>>

\* lines 96-100
BookResolve(i) ==
  /\ bookings[i].stage = "booking"
  /\ bookings' = [bookings EXCEPT ![i].stage = "succeeded"]
  /\ UNCHANGED <<crimeVars, smsVars, searchForm, searches, searchData, selectedFlight,
                 showPassengerForm, passengers>>

\* lines 101-103
BookReject(i) ==
  /\ bookings[i].stage = "booking"
  /\ bookings' = [bookings EXCEPT ![i].stage = "failed"]
  /\ UNCHANGED <<crimeVars, smsVars, searchForm, searches, searchData, selectedFlight,
                 showPassengerForm, passengers>>

NextFlights ==
  \/ \E f \in SearchInputs : SetSearchForm(f)
  \/ SearchClick
  \/ \E i \in 1..Len(searches) : SearchResolve(i)
  \/ \E i \in 1..Len(searches) : SearchReject(i)
  \/ \E flight \in FlightResults : SelectFlight(flight)
  \/ \E data \in PassengerInputs : handleAddPassenger(data)
  \/ CancelPassengerForm
  \/ BookClick
  \/ \E i \in 1..Len(bookings) : BookResolve(i)
  \/ \E i \in 1..Len(bookings) : BookReject(i)

SpecFlights == Init /\ [][NextFlights]_vars


\* ==================================================== upload then create
\* C1: a run that took a non-empty evidence collection has issued its
\* POST /api/support/tickets only after its upload answered successfully,
\* and never while that upload is still pending.
C1_UploadBeforeCreate ==
  \A i \in DOMAIN runs :
    Len(runs[i].files) > 0 =>
      /\ runs[i].createCalls > 0 => runs[i].uploadResult = "ok"
      /\ runs[i].stage = "uploading" => runs[i].createCalls = 0

C1_Witness ==
  \E i \in DOMAIN runs :
    /\ Len(runs[i].files) > 0
    /\ runs[i].uploadResult = "ok"
    /\ runs[i].createCalls = 1

\* C2: a submission started while the location is unresolved fails at the
\* location check with one error notification and makes no network call; no
\* run is ever in flight without a resolved location.
C2_MissingLocation ==
  \A i \in DOMAIN runs :
    runs[i].location = NULL =>
      /\ runs[i].stage = "failed"
      /\ runs[i].failedAt = "location"
      /\ runs[i].errorToasts = 1
      /\ runs[i].uploadCalls = 0
      /\ runs[i].createCalls = 0

C2_Witness ==
  \E i \in DOMAIN runs :
    /\ runs[i].location = NULL
    /\ runs[i].failedAt = "location"
    /\ evidenceFiles # <<>>

\* C3: a failed upload ends its submission without any report-creation
\* call and with one error notification, and the step that handles the
\* failure leaves the evidence collection as it is.
C3_FailedUploadState ==
  \A i \in DOMAIN runs :
    runs[i].uploadResult = "failed" =>
      /\ runs[i].stage = "failed"
      /\ runs[i].failedAt = "upload"
      /\ runs[i].createCalls = 0
      /\ runs[i].payload = NULL
      /\ runs[i].errorToasts = 1

C3_FailedUploadStep ==
  \A i \in DOMAIN runs :
    (runs[i].stage = "uploading" /\ runs'[i].stage # "uploading"
       /\ runs'[i].uploadResult = "failed") =>
      /\ evidenceFiles' = evidenceFiles
      /\ runs'[i].files = runs[i].files

C3_UploadFailure == [](C3_FailedUploadState) /\ [][C3_FailedUploadStep]_vars

C3_Witness ==
  \E i \in DOMAIN runs :
    /\ runs[i].uploadResult = "failed"
    /\ evidenceFiles = runs[i].files
    /\ Len(evidenceFiles) > 1

\* C4: the evidenceUrls of a posted payload are the upload's answer, in the
\* same order, when evidence was uploaded; with an empty collection no
\* upload is made and evidenceUrls is empty.
C4_EvidenceUrls ==
  \A i \in DOMAIN runs :
    runs[i].payload # NULL =>
      IF Len(runs[i].files) > 0
        THEN /\ runs[i].uploadCalls = 1
             /\ runs[i].uploadResult = "ok"
             /\ runs[i].payload.crimeDetails.evidenceUrls = runs[i].uploadUrls
        ELSE /\ runs[i].uploadCalls = 0
             /\ runs[i].payload.crimeDetails.evidenceUrls = <<>>

C4_Witness ==
  \E i \in DOMAIN runs :
    /\ runs[i].payload # NULL
    /\ Len(runs[i].files) > 0
    /\ runs[i].payload.crimeDetails.evidenceUrls = <<"u2", "u1">>

\* ================================================== evidence collection
\* the ids lo..hi that are not in S, ascending
RECURSIVE Ascending(_, _, _)
Ascending(lo, hi, S) ==
  IF lo > hi THEN <<>>
  ELSE (IF lo \in S THEN <<>> ELSE <<lo>>) \o Ascending(lo + 1, hi, S)

Ids(files) == [k \in DOMAIN files |-> files[k].id]

\* the collection holds the additions in the order they were made, without
\* the items that were removed
InAdditionOrder == Ids(evidenceFiles) = Ascending(1, nAdded, removed)

C10_RemoveStep ==
  nRemoveCalls' # nRemoveCalls =>
    IF removed' # removed
      THEN \E k \in DOMAIN evidenceFiles :
             /\ removed' = removed \cup {evidenceFiles[k].id}
             /\ evidenceFiles' = SubSeq(evidenceFiles, 1, k - 1)
                                   \o SubSeq(evidenceFiles, k + 1, Len(evidenceFiles))
      ELSE evidenceFiles' = evidenceFiles

C10_RemoveEvidence == [][C10_RemoveStep]_vars

\* two items, the first removed, then a call with an index the removal made
\* stale, which removed nothing
C10_Witness ==
  /\ nAdded = 2
  /\ removed = {1}
  /\ nRemoveCalls = 2
  /\ Ids(evidenceFiles) = <<2>>

\* ============================================================= recording
\* C6 as stated: every audio evidence item holds, in order, all the chunks
\* the recorder of its session emitted.
C6_AllChunksInItem ==
  \A k \in DOMAIN evidenceFiles :
    evidenceFiles[k].session # 0 =>
      evidenceFiles[k].payload = recorders[evidenceFiles[k].session].emitted

\* C7 as stated: while no recorder is recording the chunk buffer is empty.
C7_BufferEmptyWhenIdle ==
  (\A i \in DOMAIN recorders : recorders[i].state # "recording") => audioChunks = <<>>

\* ======================================================= after submission
\* C8 as stated: the step that completes a submission successfully leaves
\* the evidence collection and the chunk buffer empty and the form reset.
C8_ClearedStep ==
  \A i \in DOMAIN runs :
    (runs[i].stage = "creating" /\ runs'[i].stage = "succeeded") =>
      /\ evidenceFiles' = <<>>
      /\ audioChunks' = <<>>
      /\ form' = DefaultForm

C8_ClearedOnSuccess == [][C8_ClearedStep]_vars

\* C9: onSubmit has been called once for every run whose report creation
\* succeeded and not at all for any other run (pending, or failed at the
\* location check, the upload or the creation).
C9_OnSubmitOncePerSuccess ==
  \A i \in DOMAIN runs :
    runs[i].onSubmitCalls = IF runs[i].stage = "succeeded" THEN 1 ELSE 0

C9_Witness ==
  /\ \E i \in DOMAIN runs : runs[i].stage = "succeeded" /\ runs[i].onSubmitCalls = 1
  /\ \E i \in DOMAIN runs : runs[i].stage = "failed" /\ runs[i].onSubmitCalls = 0


\* ============================================================== location
\* C11: a getCurrentLocation call that fails (no position, or no answer of
\* the reverse geocoder) shows one error and does not touch location; the
\* location is unset as long as no call has succeeded, and a stored location
\* always has its coordinates together with its address.
C11_FailedCallState ==
  /\ \A i \in DOMAIN locCalls : locCalls[i].stage = "failed" => locCalls[i].errorToasts = 1
  /\ (\A i \in DOMAIN locCalls : locCalls[i].stage # "done") => location = NULL
  /\ \/ location = NULL
     \/ /\ location.address \in Addresses
        /\ [latitude |-> location.latitude, longitude |-> location.longitude] \in Positions

C11_FailureStep ==
  \A i \in DOMAIN locCalls :
    (locCalls[i].stage # "failed" /\ locCalls'[i].stage = "failed") =>
      /\ location' = location
      /\ locCalls'[i].errorToasts = locCalls[i].errorToasts + 1

C12_StoredLocation ==
  \A i \in DOMAIN locCalls :
    (locCalls[i].stage = "done" /\ ~unmounted) =>
      /\ location # NULL
      /\ location.latitude = locCalls[i].latitude
      /\ location.longitude = locCalls[i].longitude
      /\ location.address = locCalls[i].address
      /\ locCalls[i].query = [lat |-> locCalls[i].latitude, lon |-> locCalls[i].longitude]

C12_Witness ==
  \E i \in DOMAIN locCalls :
    /\ locCalls[i].stage = "done"
    /\ location # NULL
    /\ location.address \in Addresses


\* ================================================== one submission at a time
RunsInFlight == {i \in DOMAIN runs : InFlight(runs[i])}

C13_ButtonRunsState ==
  (\A i \in DOMAIN runs : runs[i].viaButton) => Cardinality(RunsInFlight) <= 1

C13_ButtonStep ==
  (Len(runs') = Len(runs) + 1 /\ runs'[Len(runs')].viaButton) =>
    /\ ~isLoading
    /\ location # NULL

C14_PayloadState ==
  \A i \in 1..Len(runs) :
    runs[i].createCalls > 0 =>
      /\ runs[i].payload # NULL
      /\ runs[i].location # NULL
      /\ runs[i].payload.type = "LIVE_CRIME"
      /\ runs[i].payload.priority = "HIGH"
      /\ runs[i].payload.subject = "Live Crime Report: " \o runs[i].data.crimeType
      /\ runs[i].data.crimeType \in CrimeTypes
      /\ runs[i].payload.description = runs[i].data.description
      /\ runs[i].payload.crimeDetails.crimeType = runs[i].data.crimeType
      /\ runs[i].payload.crimeDetails.inProgress = runs[i].data.inProgress
      /\ runs[i].payload.crimeDetails.location = runs[i].location

\* C14: a submission takes the form fields and the location of its moment.
C14_SubmitStep ==
  Len(runs') = Len(runs) + 1 =>
    /\ runs'[Len(runs')].data = form
    /\ runs'[Len(runs')].location = location

\* C14: the payload of every report-creation call has the fixed type and
\* priority and carries the fields and the location current at submission.
C14_FixedPayload == [](C14_PayloadState) /\ [][C14_SubmitStep]_vars

\* a report-creation call went out for a submission with a resolved location
\* and an evidence URL
C14_Witness ==
  \E i \in 1..Len(runs) :
    /\ runs[i].createCalls = 1
    /\ runs[i].location # NULL
    /\ runs[i].payload # NULL
    /\ runs[i].payload.crimeDetails.evidenceUrls # <<>>
    /\ runs[i].data.crimeType = "FRAUD"

\* ---------------------------------------------------------------------- C15
\* the upload and report-creation calls issued so far
RECURSIVE NetworkCalls(_)
NetworkCalls(rs) ==
  IF rs = <<>> THEN 0
  ELSE Head(rs).uploadCalls + Head(rs).createCalls + NetworkCalls(Tail(rs))

InvalidFields(f) ==
  \/ Len(f.description) < MinDescription
  \/ f.crimeType \notin CrimeTypes

\* C15: every submission that reached submitCrimeReport, hence every upload
\* and report-creation call, carries a category of the enum and a description
\* of at least 20 characters.
C15_ValidRunsState ==
  \A i \in 1..Len(runs) : ~InvalidFields(runs[i].data)

\* C15: while the form fields are invalid no step starts a submission, and
\* unless an earlier submission is still in flight no step calls the upload
\* or the report-creation endpoint.
C15_BlockedStep ==
  InvalidFields(form) =>
    /\ Len(runs') = Len(runs)
    /\ RunsInFlight = {} => NetworkCalls(runs') = NetworkCalls(runs)

\* C15: a submission with an invalid description or category is blocked by
\* validation before any network call.
C15_ValidationBlocks == [](C15_ValidRunsState) /\ [][C15_BlockedStep]_vars

\* with the location resolved, a submission of a too short description was
\* blocked: the error is shown and no call was ever made
C15_Witness ==
  /\ location # NULL
  /\ isSubmitted
  /\ form.crimeType \in CrimeTypes
  /\ errors = {"description"}
  /\ runs = <<>>

\* a submission with the unselected category and a long enough description
\* was blocked
C15_WitnessCategory ==
  /\ location # NULL
  /\ isSubmitted
  /\ errors = {"crimeType"}
  /\ runs = <<>>

\* ---------------------------------------------------------------------- C18
\* C18: a submission has called the upload endpoint at most once and the
\* report-creation endpoint at most once; a location acquisition has queried
\* the device position once and the reverse geocoder at most once.
C18_AtMostOnceState ==
  /\ \A i \in 1..Len(runs) :
       /\ runs[i].uploadCalls <= 1
       /\ runs[i].createCalls <= 1
  /\ \A i \in 1..Len(locCalls) :
       /\ locCalls[i].positionQueries = 1
       /\ locCalls[i].geocodeCalls <= 1

\* C18: a submission or a location acquisition that has ended, in failure or
\* in success, never acts again; a later attempt is a new entry.
C18_EndedStep ==
  /\ \A i \in 1..Len(runs) :
       runs[i].stage \in {"failed", "succeeded"} => runs'[i] = runs[i]
  /\ \A i \in 1..Len(locCalls) :
       locCalls[i].stage \in {"failed", "done"} => locCalls'[i] = locCalls[i]

\* C18: the client retries nothing by itself.
C18_NoAutomaticRetry == [](C18_AtMostOnceState) /\ [][C18_EndedStep]_vars

\* an upload was rejected after its one call, a report-creation call was
\* rejected after its one call, and a location acquisition failed after its
\* one reverse-geocode call
C18_Witness ==
  /\ \E i \in 1..Len(runs) :
       /\ runs[i].failedAt = "upload"
       /\ runs[i].uploadCalls = 1
       /\ runs[i].createCalls = 0
  /\ \E i \in 1..Len(runs) :
       /\ runs[i].failedAt = "create"
       /\ runs[i].createCalls = 1
  /\ \E i \in 1..Len(locCalls) :
       /\ locCalls[i].stage = "failed"
       /\ locCalls[i].geocodeCalls = 1

\* ---------------------------------------------------------------------- C19
\* C19 as stated: once stopRecording has stopped a recorder, the capture
\* stream that recorder was created on is no longer open.
C19_StreamReleasedOnStop ==
  \A i \in 1..Len(recorders) :
    recorders[i].state \in {"stopping", "inactive"} => ~recorders[i].streamOpen

\* ---------------------------------------------------------------------- C20
\* C20 as stated: after the component was unmounted no capture stream it
\* opened is still open.
C20_StreamReleasedOnTeardown ==
  unmounted => \A i \in 1..Len(recorders) : ~recorders[i].streamOpen

\* ---------------------------------------------------------------------- C17
\* C17 as stated: once a report-creation call has succeeded, no step issues
\* another upload or report-creation call.
C17_SubmittedStep ==
  (\E i \in 1..Len(runs) : runs[i].stage = "succeeded") =>
    NetworkCalls(runs') = NetworkCalls(runs)

C17_SubmittedIsTerminal == [][C17_SubmittedStep]_vars

\* ---------------------------------------------------------------------- C16
LocationCallPending ==
  \E i \in 1..Len(locCalls) : locCalls[i].stage \in {"position", "geocode"}

\* C16: in the mounted component the loading flag is set only while a location
\* call is pending, the recording flag only while the recorder held in state
\* is recording, and a failed latest submission leaves the submit button
\* enabled when the location is resolved.
C16_FlagsState ==
  mounted =>
    /\ isLoadingLocation => LocationCallPending
    /\ isRecording => /\ mediaRecorder # 0
                      /\ recorders[mediaRecorder].state = "recording"
    /\ (/\ runs # <<>>
        /\ runs[Len(runs)].stage = "failed"
        /\ location # NULL) => ~SubmitDisabled

\* C16: whatever has failed before, the mounted component lets the user add
\* evidence, remove an item, start or stop a recording, ask for the location
\* again when it is unset and no call is pending, and submit again when the
\* location is resolved and the latest submission is not pending.
C16_ControlsState ==
  (mounted /\ nOps < MaxOps) =>
    /\ ENABLED handleFileChange(<<"receipt.jpg">>)
    /\ evidenceFiles # <<>> => ENABLED removeFile(0)
    /\ ENABLED (StartRecordingClick \/ StopRecordingClick)
    /\ (location = NULL /\ ~LocationCallPending) => ENABLED GetLocationClick
    /\ (location # NULL /\ ~isLoading) => ENABLED SubmitButtonClick

\* C16: no failure of the location, the microphone, the upload or the report
\* creation leaves the component stuck.
C16_NoFailureDeadlocks == C16_FlagsState /\ C16_ControlsState

\* a location call, a microphone request and a submission have failed; the
\* location was obtained by a second call and the submit button is enabled
C16_Witness ==
  /\ mounted
  /\ nOps < MaxOps
  /\ \E i \in 1..Len(locCalls) : locCalls[i].stage = "failed"
  /\ \E i \in 1..Len(recorders) : recorders[i].state = "failed"
  /\ runs # <<>>
  /\ runs[Len(runs)].stage = "failed"
  /\ runs[Len(runs)].failedAt = "create"
  /\ location # NULL
  /\ ~SubmitDisabled

\* a submission started from the button after an earlier one had failed
C16_WitnessResubmit ==
  \E i, j \in 1..Len(runs) :
    /\ i < j
    /\ runs[i].stage = "failed"
    /\ runs[i].failedAt \in {"upload", "create"}
    /\ runs[j].viaButton
    /\ InFlight(runs[j])

\* ---------------------------------------------------------------------- C21
\* C21: a recorder whose start failed has reported one error, holds no
\* stream, has emitted nothing and owns no evidence item.
C21_FailedStartState ==
  \A i \in 1..Len(recorders) :
    recorders[i].state = "failed" =>
      /\ recorders[i].errorToasts = 1
      /\ ~recorders[i].streamOpen
      /\ recorders[i].emitted = <<>>
      /\ mediaRecorder # i
      /\ \A k \in 1..Len(evidenceFiles) : evidenceFiles[k].session # i

\* C21: the step in which a start fails reports the error and changes neither
\* the recording flag nor the evidence collection nor the chunk buffer.
C21_FailedStartStep ==
  \A i \in 1..Len(recorders) :
    (recorders[i].state # "failed" /\ recorders'[i].state = "failed") =>
      /\ recorders'[i].errorToasts = recorders[i].errorToasts + 1
      /\ isRecording' = isRecording
      /\ mediaRecorder' = mediaRecorder
      /\ evidenceFiles' = evidenceFiles
      /\ audioChunks' = audioChunks

\* C21: a failed startRecording reports an error and leaves the session
\* inactive and the evidence collection and chunk buffer unchanged.
C21_StartFailure == [](C21_FailedStartState) /\ [][C21_FailedStartStep]_vars

\* the microphone was refused while the collection held a file
C21_Witness ==
  /\ mounted
  /\ \E i \in 1..Len(recorders) : recorders[i].state = "failed"
  /\ ~isRecording
  /\ evidenceFiles # <<>>

\* ---------------------------------------------------------------------- C22
\* C22: the component that was mounted has asked for the location once on its
\* own, as its first call, and every later call came from a click on the
\* location button; before the mount there is no call.
C22_AutomaticOnceState ==
  /\ (mounted \/ unmounted) =>
       /\ Len(locCalls) >= 1
       /\ locCalls[1].trigger = "mount"
       /\ \A i \in 2..Len(locCalls) : locCalls[i].trigger = "click"
  /\ (~mounted /\ ~unmounted) => locCalls = <<>>

\* C22: the mount step itself starts the first call and sets the loading
\* flag, and a step that starts a later call is taken with the button
\* rendered: location unset and no call loading.
C22_AcquisitionStep ==
  /\ (~mounted /\ mounted') =>
       /\ Len(locCalls') = 1
       /\ locCalls'[1].stage = "position"
       /\ isLoadingLocation'
  /\ (mounted /\ Len(locCalls') > Len(locCalls)) =>
       /\ Len(locCalls') = Len(locCalls) + 1
       /\ location = NULL
       /\ ~isLoadingLocation

\* C22: the location is asked for automatically exactly once, on entry, and
\* afterwards only on a manual retry.
C22_AutomaticOnce == [](C22_AutomaticOnceState) /\ [][C22_AcquisitionStep]_vars

\* the automatic call failed and the user retried by hand
C22_Witness ==
  /\ Len(locCalls) >= 2
  /\ locCalls[1].trigger = "mount"
  /\ locCalls[1].stage = "failed"
  /\ locCalls[2].trigger = "click"

\* ---------------------------------------------------------------------- C23
\* C23 as stated: every successful submission has made one upload call and
\* one report-creation call, and every resolved location call one
\* reverse-geocode call.
C23_TwoCallsPerSuccess ==
  /\ \A i \in 1..Len(runs) :
       runs[i].stage = "succeeded" =>
         /\ runs[i].uploadCalls = 1
         /\ runs[i].createCalls = 1
  /\ \A i \in 1..Len(locCalls) :
       locCalls[i].stage = "done" => locCalls[i].geocodeCalls = 1

\* C23: a successful submission has made one report-creation call, preceded
\* by one successful upload call when it took a non-empty evidence collection
\* and by no upload call when the collection was empty; a resolved location
\* call has made one reverse-geocode call.
C23_CallsPerSuccess ==
  /\ \A i \in 1..Len(runs) :
       /\ runs[i].stage = "succeeded" =>
            /\ runs[i].createCalls = 1
            /\ runs[i].uploadCalls = IF Len(runs[i].files) > 0 THEN 1 ELSE 0
            /\ runs[i].uploadCalls = 1 => runs[i].uploadResult = "ok"
       /\ runs[i].stage = "uploading" => runs[i].createCalls = 0
  /\ \A i \in 1..Len(locCalls) :
       locCalls[i].stage = "done" => locCalls[i].geocodeCalls = 1

\* a submission without evidence succeeded after its single call, and the
\* location it carries came from a resolved call
C23_Witness ==
  /\ \E i \in 1..Len(runs) :
       /\ runs[i].stage = "succeeded"
       /\ runs[i].files = <<>>
       /\ runs[i].uploadCalls = 0
       /\ runs[i].createCalls = 1
  /\ \E i \in 1..Len(locCalls) : locCalls[i].stage = "done"

\* a submission with evidence succeeded after an upload and a creation call
C23_WitnessWithEvidence ==
  \E i \in 1..Len(runs) :
    /\ runs[i].stage = "succeeded"
    /\ runs[i].files # <<>>
    /\ runs[i].uploadCalls = 1
    /\ runs[i].createCalls = 1

\* ---------------------------------------------------------------------- C24
\* C24: a submission that follows one whose report creation failed after a
\* successful upload has, once it posts its report, made its own upload call
\* when it took evidence, and the evidenceUrls it posts are the answer to
\* that call (none when it took no evidence).
C24_RetryState ==
  \A i, j \in 1..Len(runs) :
    (/\ i < j
     /\ runs[i].failedAt = "create"
     /\ runs[i].uploadResult = "ok"
     /\ runs[j].createCalls > 0) =>
       IF Len(runs[j].files) > 0
         THEN /\ runs[j].uploadCalls = 1
              /\ runs[j].uploadResult = "ok"
              /\ runs[j].payload.crimeDetails.evidenceUrls = runs[j].uploadUrls
         ELSE /\ runs[j].uploadCalls = 0
              /\ runs[j].payload.crimeDetails.evidenceUrls = <<>>

\* C24: a submission takes the evidence collection of its moment.
C24_RetryStep ==
  Len(runs') = Len(runs) + 1 => runs'[Len(runs')].files = evidenceFiles

\* C24: a resubmission after a failed report creation re-runs from the upload
\* with the evidence then selected and posts only its own upload's references.
C24_RetryUploadsAgain == [](C24_RetryState) /\ [][C24_RetryStep]_vars

\* the retry's upload answered with other references than the first upload,
\* and the retry posts these
C24_Witness ==
  \E i, j \in 1..Len(runs) :
    /\ i < j
    /\ runs[i].failedAt = "create"
    /\ runs[i].uploadResult = "ok"
    /\ runs[j].createCalls = 1
    /\ runs[j].uploadCalls = 1
    /\ runs[j].uploadUrls # runs[i].uploadUrls
    /\ runs[j].payload.crimeDetails.evidenceUrls = runs[j].uploadUrls

\* ---------------------------------------------------------------------- C25
DoneCalls == {i \in 1..Len(locCalls) : locCalls[i].stage = "done"}

LastOf(S) == CHOOSE i \in S : \A k \in S : k <= i

C26_KeptStep ==
  location # NULL =>
    \/ location' = location
    \/ \E i \in 1..Len(locCalls) :
         /\ locCalls[i].stage # "done"
         /\ locCalls'[i].stage = "done"
         /\ location' = [latitude |-> locCalls'[i].latitude,
                         longitude |-> locCalls'[i].longitude,
                         address |-> locCalls'[i].address]

C26_NeverReset == [][C26_KeptStep]_vars

\* with the location resolved a submission failed, a later one succeeded and
\* the evidence collection was changed
C26_Witness ==
  /\ location # NULL
  /\ \E i \in 1..Len(runs) : runs[i].stage = "failed" /\ runs[i].location # NULL
  /\ \E i \in 1..Len(runs) : runs[i].stage = "succeeded"
  /\ nAdded > 0

\* ---------------------------------------------------------------------- C27
\* C27 as stated: at most one recorder of the component is recording at any
\* time.
C27_AtMostOneCapture ==
  Cardinality({i \in 1..Len(recorders) : recorders[i].state = "recording"}) <= 1

\* ---------------------------------------------------------------------- C28
\* C28 as stated: every chunk in the payload of an audio evidence item was
\* emitted by the recorder of the session the item was built for.
C28_OwnChunksOnly ==
  \A k \in 1..Len(evidenceFiles) :
    evidenceFiles[k].session # 0 =>
      \A n \in 1..Len(evidenceFiles[k].payload) :
        evidenceFiles[k].payload[n][1] = evidenceFiles[k].session

\* ---------------------------------------------------------------------- C29
\* C29: the preview is the first min(5, n) entries of the recipients list of
\* length n, in the same order.
C29_PreviewState ==
  /\ Len(previewRecipients) = IF Len(recipients) < 5 THEN Len(recipients) ELSE 5
  /\ \A k \in 1..Len(previewRecipients) : previewRecipients[k] = recipients[k]

\* C29: the step in which a send succeeds leaves the preview and the
\* recipients list empty.
C29_SendStep ==
  \A i \in 1..Len(sends) :
    (sends[i].stage = "sending" /\ sends'[i].stage = "succeeded") =>
      /\ previewRecipients' = <<>>
      /\ recipients' = <<>>

\* C29: after any sequence of uploads and successful sends the preview shows
\* the head of the current recipients list, and a successful send empties
\* both.
C29_PreviewMatchesRecipients == [](C29_PreviewState) /\ [][C29_SendStep]_vars

\* after a successful send a file of seven numbers was parsed: five are shown
C29_Witness ==
  /\ \E i \in 1..Len(sends) : sends[i].stage = "succeeded"
  /\ Len(recipients) = 7
  /\ previewRecipients = <<"p1", "p2", "p3", "p4", "p5">>

\* ---------------------------------------------------------------------- C30
\* C30 as stated: no booking is priced over more passengers than the search
\* form requested when it was made.
C30_BookingsState ==
  \A i \in 1..Len(bookings) :
    Len(bookings[i].passengers) <= bookings[i].requested

\* C30 as stated: no step appends a passenger record beyond the passenger
\* count the search form holds.
C30_AddStep ==
  Len(passengers') > Len(passengers) =>
    Len(passengers') <= searchForm.passengers.value

C30_PassengersWithinRequested == [](C30_BookingsState) /\ [][C30_AddStep]_vars

====
